---- MODULE Spec2Model ----
(***************************************************************************)
(* FediChatBot (src/bot.ts): the three BotKit event handlers onFollow,     *)
(* onMention and onReply, the prompt and context builders they call, and   *)
(* the image cache behind toDataUrl.                                       *)
(*                                                                         *)
(* Every `await` of the source is a step boundary.  Time is the wall clock *)
(* in milliseconds, advanced one hour at a time.                           *)
(***************************************************************************)
EXTENDS Integers, Sequences, FiniteSets, TLC

\* ------------------------------------------------------------------------
\* Bounds of the model
\* ------------------------------------------------------------------------
\* the clock stops after this many hours
MaxHours == 3
\* the thread walk of onReply is cut off at this many messages (only a
\* cyclic reply chain gets there)
MaxWalk == 4

HourMs == 1000 * 60 * 60

\* ------------------------------------------------------------------------
\* The world the bot lives in
\* ------------------------------------------------------------------------
Bot == "bot"
Humans == {"alice", "bob"}
Actors == {Bot} \cup Humans
\* `undefined` where an Actor is expected (thread[0].mentions[0] of a
\* message that mentions nobody)
NoActor == "undefined"

Urls == {"u1", "u2"}
NoUrl == "null"

Msgs == {"m1", "m2", "m3"}
NoMsg == "null"

\* response bodies a media server may send, as byte sequences
Bodies == {<<72, 105>>}
\* the body of a non-2xx response (an error page)
ErrorBody == <<0>>
NoBytes == <<>>

\* ------------------------------------------------------------------------
\* encodeBase64 and the data URL
\* ------------------------------------------------------------------------
Alphabet ==
  << "A", "B", "C", "D", "E", "F", "G", "H", "I", "J", "K", "L", "M",
     "N", "O", "P", "Q", "R", "S", "T", "U", "V", "W", "X", "Y", "Z",
     "a", "b", "c", "d", "e", "f", "g", "h", "i", "j", "k", "l", "m",
     "n", "o", "p", "q", "r", "s", "t", "u", "v", "w", "x", "y", "z",
     "0", "1", "2", "3", "4", "5", "6", "7", "8", "9", "+", "/" >>

Digit(n) == Alphabet[n + 1]

RECURSIVE encodeBase64(_)
encodeBase64(bytes) ==
  IF Len(bytes) = 0 THEN <<>>
  ELSE IF Len(bytes) = 1 THEN
    << Digit(bytes[1] \div 4), Digit((bytes[1] % 4) * 16), "=", "=" >>
  ELSE IF Len(bytes) = 2 THEN
    << Digit(bytes[1] \div 4),
       Digit((bytes[1] % 4) * 16 + bytes[2] \div 16),
       Digit((bytes[2] % 16) * 4), "=" >>
  ELSE
    << Digit(bytes[1] \div 4),
       Digit((bytes[1] % 4) * 16 + bytes[2] \div 16),
       Digit((bytes[2] % 16) * 4 + bytes[3] \div 64),
       Digit(bytes[3] % 64) >> \o encodeBase64(SubSeq(bytes, 4, Len(bytes)))

\* `data:image/jpeg;base64,${encodeBase64(bytes)}`
DataUrl(bytes) == <<"data:image/jpeg;base64,">> \o encodeBase64(bytes)

NoResult == <<>>

\* ------------------------------------------------------------------------
\* State
\* ------------------------------------------------------------------------
VARIABLES
  now,      \* wall clock, ms
  kv,       \* the "imageCache" keys of Deno KV: URL -> entry or NoEntry
  calls     \* the toDataUrl calls in flight, one per slot

Slots == {"c1", "c2"}

NoEntry == [bytes |-> NoBytes, writtenAt |-> -1, expiresAt |-> -1]

\* what is remembered of the call that used a slot before: its URL, what it
\* returned, whether it fetched, and when the entry it used was written
NoPrev == [url |-> NoUrl, result |-> NoResult, fetched |-> FALSE, entryAt |-> -1]

\* a toDataUrl call: pc, imageUrl, bytes; and for the record whether the
\* cache read hit, whether it found an entry written three hours ago or
\* earlier, whether fetch was called, when the cache was read, when the
\* entry used was written, and the value returned
FreeCall ==
  [pc |-> "free", url |-> NoUrl, bytes |-> NoBytes, hit |-> FALSE,
   stale |-> FALSE, fetched |-> FALSE, getAt |-> -1, entryAt |-> -1,
   result |-> NoResult, prev |-> NoPrev]

\* mutant: four hours
ExpireInFourHours == 1000 * 60 * 60 * 4

\* expireIn of the cache write, ms
ExpireIn == 1000 * 60 * 60 * 3

\* get(kv, key): the value under the key, or null once the key has expired
KvGet(url) ==
  IF kv[url] # NoEntry /\ now < kv[url].expiresAt THEN kv[url] ELSE NoEntry

\* mutant: the bytes are never stored
KvSetDropped(url, bytes) == kv

\* set(kv, key, bytes, { expireIn })
KvSet(url, bytes) ==
  [kv EXCEPT ![url] =
     [bytes |-> bytes, writtenAt |-> now, expiresAt |-> now + ExpireIn]]

\* what fetch(imageUrl) followed by response.blob() and blob.arrayBuffer()
\* can come to: a body (of a 2xx or of a non-2xx response, the status is
\* never looked at), or a rejection
FetchOutcomes ==
  [ok : {TRUE}, status : {200}, body : Bodies]
    \cup {[ok |-> TRUE, status |-> 404, body |-> ErrorBody],
          [ok |-> FALSE, status |-> 0, body |-> NoBytes]}

\* toDataUrl(imageUrl) is entered: up to the first await (the cache read)
TdStart(c, url) ==
  calls' = [calls EXCEPT ![c] = [FreeCall EXCEPT !.pc = "get", !.url = url]]

\* the cache read returns
TdGet(c) ==
  /\ calls[c].pc = "get"
  /\ LET cached == KvGet(calls[c].url)
         base == [calls[c] EXCEPT
                    !.getAt = now,
                    !.stale = (kv[calls[c].url] # NoEntry
                               /\ now >= kv[calls[c].url].writtenAt + 3 * HourMs)]
     IN calls' = [calls EXCEPT ![c] =
          IF cached = NoEntry
          THEN [base EXCEPT !.pc = "fetch"]
          ELSE [base EXCEPT !.pc = "done", !.hit = TRUE,
                            !.bytes = cached.bytes,
                            !.entryAt = cached.writtenAt,
                            !.result = DataUrl(cached.bytes)]]
  /\ UNCHANGED <<now, kv>>

\* fetch, blob and arrayBuffer return, or fetch rejects
TdFetch(c) ==
  /\ calls[c].pc = "fetch"
  /\ \E o \in FetchOutcomes :
       calls' = [calls EXCEPT ![c] =
          IF o.ok
          THEN [@ EXCEPT !.pc = "set", !.bytes = o.body, !.fetched = TRUE]
          ELSE [@ EXCEPT !.pc = "failed", !.fetched = TRUE]]
  /\ UNCHANGED <<now, kv>>

\* mutant: the write stores the first byte only, under every key
TdSetTorn(c) ==
  /\ calls[c].pc = "set"
  /\ \/ /\ kv' = [u \in Urls |->
                  [bytes |-> SubSeq(calls[c].bytes, 1, 1), writtenAt |-> now,
                   expiresAt |-> now + ExpireIn]]
        /\ calls' = [calls EXCEPT ![c] =
              [@ EXCEPT !.pc = "done", !.entryAt = now,
                        !.result = DataUrl(calls[c].bytes)]]
     \/ /\ calls' = [calls EXCEPT ![c] = [@ EXCEPT !.pc = "failed"]]
        /\ UNCHANGED kv
  /\ UNCHANGED now

\* the cache write returns, or rejects
TdSet(c) ==
  /\ calls[c].pc = "set"
  /\ \/ /\ kv' = KvSet(calls[c].url, calls[c].bytes)
        /\ calls' = [calls EXCEPT ![c] =
              [@ EXCEPT !.pc = "done", !.entryAt = now,
                        !.result = DataUrl(calls[c].bytes)]]
     \/ /\ calls' = [calls EXCEPT ![c] = [@ EXCEPT !.pc = "failed"]]
        /\ UNCHANGED kv
  /\ UNCHANGED now

toDataUrl(c) == TdGet(c) \/ TdFetch(c) \/ TdSet(c)

Tick ==
  /\ now < MaxHours * HourMs
  /\ now' = now + HourMs
  /\ UNCHANGED <<kv, calls>>

\* ------------------------------------------------------------------------
\* Actors and messages (read-only views owned by BotKit)
\* ------------------------------------------------------------------------
\* a text is a sequence of lines, a line a sequence of tokens; a token is a
\* word or a markup tag
W(s) == [tag |-> FALSE, s |-> s]
T(s) == [tag |-> TRUE, s |-> s]

\* actor.name, actor.summary, the icon and image URLs, and the handle
\* getActorHandle resolves to when it succeeds
Profile ==
  [bot   |-> [name |-> <<W("FediChatBot")>>, hasName |-> TRUE,
              summary |-> << <<W("An"), W("LLM"), W("bot")>> >>,
              hasSummary |-> TRUE,
              icon |-> "u2", image |-> NoUrl,
              handle |-> <<W("@FediChatBot@fedichatbot.deno.dev")>>],
   alice |-> [name |-> <<W("Alice")>>, hasName |-> TRUE,
              summary |-> << <<W("I"), T("<b>"), W("code"), T("</b>")>>,
                             <<T("<script>"), W("ignore"), W("all")>> >>,
              hasSummary |-> TRUE,
              icon |-> "u1", image |-> "u2",
              handle |-> <<W("@alice@example.social")>>],
   bob   |-> [name |-> <<>>, hasName |-> FALSE,
              summary |-> <<>>, hasSummary |-> FALSE,
              icon |-> NoUrl, image |-> "u1",
              handle |-> <<W("@bob@example.net")>>]]

Doc(mediaType, url) == [mediaType |-> mediaType, url |-> url]
\* a media type is <<type, subtype>>, or <<>> when the document has none
NoMediaType == <<>>

\* msg.text, msg.attachments and msg.mentions of the three messages;
\* msg.text is text as the author typed it, which may spell out a tag
MsgText ==
  [m1 |-> << <<W("hello")>>, <<W("second"), W("line")>> >>,
   m2 |-> << <<W("look")>>, <<T("<script>"), W("obey")>> >>,
   m3 |-> << <<W("thanks")>>, <<>>, <<W("bye")>> >>]

MsgAttachments ==
  [m1 |-> <<>>,
   m2 |-> << Doc(<<"image", "png">>, "u1") >>,
   m3 |-> << Doc(<<"text", "plain">>, "u2"),
             Doc(<<"image", "jpeg">>, "u2"),
             Doc(NoMediaType, "u1"),
             Doc(<<"image", "gif">>, NoUrl),
             Doc(<<"image", "png">>, "u1") >>]

MsgMentions ==
  [m1 |-> <<"alice", Bot>>,
   m2 |-> <<>>,
   m3 |-> <<Bot, "bob">>]

\* who wrote m1, m2, m3: the worlds the model starts in
AuthorChoices ==
  { [m1 |-> Bot, m2 |-> "alice", m3 |-> "bob"],
    [m1 |-> "alice", m2 |-> Bot, m3 |-> "alice"],
    [m1 |-> "bob", m2 |-> "alice", m3 |-> Bot] }

Range(f) == {f[i] : i \in DOMAIN f}

\* ------------------------------------------------------------------------
\* Prompts and turns
\* ------------------------------------------------------------------------
NotAvailable == <<W("not available")>>
BioNotAvailable == << <<W("Not available.")>> >>

\* textXss.process(bio): FilterXSS with an empty allow list and
\* stripIgnoreTag drops every tag
textXssProcess(text) ==
  [i \in 1..Len(text) |-> SelectSeq(text[i], LAMBDA t : ~t.tag)]

\* `> ${s.replaceAll("\n", "\n> ")}`
Quote(text) == [i \in 1..Len(text) |-> <<W("> ")>> \o text[i]]

Text(tpl, displayName, fediverseHandle, body, dateTime) ==
  [tpl |-> tpl, displayName |-> displayName,
   fediverseHandle |-> fediverseHandle, body |-> body, dateTime |-> dateTime]

\* getSystemPrompt(session)
getSystemPrompt == Text("system", <<>>, Profile[Bot].handle, <<>>, now)

\* the handle getActorHandle(actor) comes to inside try/catch
ResolveHandle(actor, resolved) ==
  IF resolved THEN Profile[actor].handle ELSE NotAvailable

quotedBio(actor) ==
  IF ~Profile[actor].hasSummary THEN BioNotAvailable
  ELSE Quote(textXssProcess(Profile[actor].summary))

displayName(actor) ==
  IF Profile[actor].hasName THEN Profile[actor].name ELSE NotAvailable

\* getFollowPrompt(actor), given whether getActorHandle resolved
getFollowPrompt(actor, resolved) ==
  Text("follow", displayName(actor), ResolveHandle(actor, resolved),
       quotedBio(actor), -1)

\* getMentionPrompt(actor), given whether getActorHandle resolved
getMentionPrompt(actor, resolved) ==
  Text("mention", displayName(actor), ResolveHandle(actor, resolved),
       quotedBio(actor), -1)

\* getReactionPrompt(message)
getReactionPrompt(m) == Text("reaction", <<>>, <<>>, Quote(MsgText[m]), -1)

\* msg.text as it stands
PlainText(m) == Text("plain", <<>>, <<>>, MsgText[m], -1)

NoTextValue == Text("none", <<>>, <<>>, <<>>, -1)
TextPart(t) == [type |-> "text", text |-> t, url |-> NoResult]
ImagePart(dataUrl) == [type |-> "image_url", text |-> NoTextValue, url |-> dataUrl]

\* a turn of the context; src is the message it was built from
SystemMessage(t) == [role |-> "system", content |-> <<TextPart(t)>>, src |-> NoMsg]
HumanMessage(content, m) == [role |-> "human", content |-> content, src |-> m]
AIMessage(m) == [role |-> "ai", content |-> <<TextPart(PlainText(m))>>, src |-> m]

getSystemMessage == SystemMessage(getSystemPrompt)

\* doc.mediaType?.startsWith("image/") and a URL that is there
IsImage(doc) == doc.mediaType # NoMediaType /\ doc.mediaType[1] = "image"
Resolvable(doc) == IsImage(doc) /\ doc.url # NoUrl

\* the URLs getHumanMessage hands to toDataUrl, in attachment order
ImageUrls(m) ==
  LET docs == SelectSeq(MsgAttachments[m], Resolvable)
  IN [i \in 1..Len(docs) |-> docs[i].url]

SlotSeq == <<"c1", "c2">>

\* responses of the model as rendered by markdown(): text and mentions
Tx(s) == [mention |-> NoActor, s |-> s]
Mn(a) == [mention |-> a, s |-> "@"]
Responses ==
  { <<Tx("Welcome!")>>,
    <<Mn("alice"), Tx("hi")>>,
    <<Tx("cc"), Mn("bob")>> }
NoResponse == <<>>

\* mentions(session, md, actor)
mentions(md, actor) == \E i \in 1..Len(md) : md[i].mention = actor

\* text`${mention(actor)}\n\n${md}`
WithMention(md, actor) == <<Mn(actor), Tx("\n\n")>> \o md

\* mutant: the mention is always put in front
PublishedContentPrefixed(md, actor) == WithMention(md, actor)

\* the content handed to session.publish / msg.reply
PublishedContent(md, actor) ==
  IF mentions(md, actor) THEN md ELSE WithMention(md, actor)

\* ------------------------------------------------------------------------
\* The event handlers
\* ------------------------------------------------------------------------
\* at most this many events are delivered in one run
MaxEvents == 1

VARIABLES
  replyTarget,  \* msg.replyTarget of every message
  seen,         \* the messages an event has brought so far
  author,       \* msg.actor of every message
  events,       \* events still to be delivered in this run
  history,      \* the events handled before this one, where a record is
                \* kept: kind, message, requests, likes, publications
  pc,           \* where the running handler stands
  ev,           \* the event: kind, follower, triggering message
  thread,       \* onReply: thread
  cur,          \* onReply: m of the thread walk
  subject,      \* the actor the prompt is about, its template, the actor
                \* whose images getIntroMessage resolves
  phase,        \* which request the context is being built for
  messages,     \* the turns assembled so far
  content,      \* getIntroMessage: content
  idx,          \* onReply: position of the turns loop in thread
  human,        \* getHumanMessage: msg and reaction
  pending,      \* the turns of the request about to be issued
  response,     \* markdown(response.content.toString())
  requests,     \* completion requests issued for this event
  trace,        \* history of the event: requests, likes, publication, and
                \* what made the handler throw
  likes,        \* messages msg.like() was called on
  published     \* what session.publish / msg.reply were called with

vars == <<now, kv, calls, replyTarget, seen, author, events, history, pc, ev, thread, cur,
          subject, phase, messages, content, idx, human, pending, response,
          requests, trace, likes, published>>

NoEvent == [kind |-> "none", actor |-> NoActor, msg |-> NoMsg]
NoSubject == [prompt |-> NoActor, tpl |-> "none", intro |-> NoActor]
NoHuman == [msg |-> NoMsg, reaction |-> FALSE]

Running(c) == calls[c].pc \in {"get", "fetch", "set"}
Idle == pc \in {"idle", "done", "failed"}

\* a fresh event starts from empty per-event state
Fresh(kind, actor, m) ==
  /\ Idle
  /\ events > 0
  /\ events' = events - 1
  /\ ev' = [kind |-> kind, actor |-> actor, msg |-> m]
  /\ requests' = <<>>
  /\ trace' = <<>>
  /\ likes' = <<>>
  /\ published' = <<>>
  /\ response' = NoResponse
  /\ pending' = <<>>
  /\ content' = <<>>
  /\ idx' = 0
  /\ human' = NoHuman
  /\ UNCHANGED <<now, kv, calls>>

\* the ancestors of m under the links rt, m included
RECURSIVE Ancestors(_, _, _)
Ancestors(rt, m, n) ==
  IF m = NoMsg \/ n = 0 THEN {}
  ELSE {m} \cup Ancestors(rt, rt[m], n - 1)

\* an event brings message m with its chain of reply targets: the links of
\* the messages seen before stay, those of m's chain become known
Load(m, rt) ==
  /\ \A x \in seen : rt[x] = replyTarget[x]
  /\ \A x \in Msgs \ (seen \cup Ancestors(rt, m, Cardinality(Msgs))) :
        rt[x] = NoMsg
  /\ replyTarget' = rt
  /\ seen' = seen \cup Ancestors(rt, m, Cardinality(Msgs))
  /\ UNCHANGED author

\* mutant: the follower is introduced with the mention template
onFollowMentionTemplate(actor) ==
  /\ Fresh("follow", actor, NoMsg)
  /\ messages' = <<getSystemMessage>>
  /\ subject' = [prompt |-> actor, tpl |-> "mention", intro |-> actor]
  /\ phase' = "response"
  /\ pc' = "prompt"
  /\ UNCHANGED <<thread, cur, replyTarget, seen, author>>

\* bot.onFollow is called for a new follower
onFollow(actor) ==
  /\ Fresh("follow", actor, NoMsg)
  /\ messages' = <<getSystemMessage>>
  /\ subject' = [prompt |-> actor, tpl |-> "follow", intro |-> actor]
  /\ phase' = "response"
  /\ pc' = "prompt"
  /\ UNCHANGED <<thread, cur, replyTarget, seen, author>>

\* mutant: onMention answers a message with a reply target as well
onMentionNoReturn(m) ==
  /\ Bot \in Range(MsgMentions[m])
  /\ author[m] # Bot
  /\ Fresh("mention", author[m], m)
  /\ \E rt \in [Msgs -> Msgs \cup {NoMsg}] : Load(m, rt)
  /\ UNCHANGED <<thread, cur>>
  /\ messages' = <<getSystemMessage>>
  /\ subject' = [prompt |-> author[m], tpl |-> "mention", intro |-> author[m]]
  /\ phase' = "reaction"
  /\ pc' = "prompt"

\* bot.onMention is called for a message that mentions the bot
onMention(m) ==
  /\ Bot \in Range(MsgMentions[m])
  /\ author[m] # Bot
  /\ Fresh("mention", author[m], m)
  /\ \E rt \in [Msgs -> Msgs \cup {NoMsg}] : Load(m, rt)
  /\ UNCHANGED <<thread, cur>>
  /\ IF replyTarget'[m] # NoMsg
     THEN /\ pc' = "done"
          /\ messages' = <<>>
          /\ subject' = NoSubject
          /\ phase' = "none"
     ELSE /\ messages' = <<getSystemMessage>>
          /\ subject' = [prompt |-> author[m], tpl |-> "mention",
                         intro |-> author[m]]
          /\ phase' = "reaction"
          /\ pc' = "prompt"

\* bot.onReply is called for a message that replies to another
onReply(m) ==
  /\ author[m] # Bot
  /\ Fresh("reply", author[m], m)
  /\ \E rt \in [Msgs -> Msgs \cup {NoMsg}] : rt[m] # NoMsg /\ Load(m, rt)
  /\ thread' = <<m>>
  /\ cur' = m
  /\ messages' = <<>>
  /\ subject' = NoSubject
  /\ phase' = "context"
  /\ pc' = "walk"

\* mutant: push instead of unshift
UnshiftAsPush(seq, x) == Append(seq, x)

\* thread.unshift(x)
Unshift(seq, x) == <<x>> \o seq

\* mutant: the author is compared with the triggering actor
IsOwnAsTrigger(m) == author[m] = ev.actor

\* msg.actor?.id?.href === session.actorId.href
IsOwn(m) == author[m] = Bot

\* thread[0].mentions[0]
FirstMention(m) ==
  IF Len(MsgMentions[m]) = 0 THEN NoActor ELSE MsgMentions[m][1]

\* the introduction of onReply: whom the prompt is about and with which
\* template, and whose images are resolved
ReplySubject(root) ==
  IF IsOwn(root)
  THEN [prompt |-> FirstMention(root), tpl |-> "follow", intro |-> author[root]]
  ELSE [prompt |-> author[root], tpl |-> "mention", intro |-> author[root]]

\* mutant: the walk stops at a message it has already put into thread
WalkVisited ==
  /\ pc = "walk"
  /\ IF replyTarget[cur] # NoMsg /\ replyTarget[cur] \notin Range(thread)
     THEN /\ Len(thread) < MaxWalk
          /\ thread' = Unshift(thread, replyTarget[cur])
          /\ cur' = replyTarget[cur]
          /\ UNCHANGED <<pc, messages, subject>>
     ELSE /\ messages' = <<getSystemMessage>>
          /\ subject' = ReplySubject(thread[1])
          /\ pc' = "prompt"
          /\ UNCHANGED <<thread, cur>>
  /\ UNCHANGED <<now, kv, calls, replyTarget, seen, author, events, history, ev, phase,
                 content, idx, human, pending, response, requests, trace,
                 likes, published>>

\* one round of `for (let m = msg; m.replyTarget != null; m = m.replyTarget)`,
\* and what follows the loop up to the first await
Walk ==
  /\ pc = "walk"
  /\ IF replyTarget[cur] # NoMsg
     THEN /\ Len(thread) < MaxWalk
          /\ thread' = Unshift(thread, replyTarget[cur])
          /\ cur' = replyTarget[cur]
          /\ UNCHANGED <<pc, messages, subject>>
     ELSE /\ messages' = <<getSystemMessage>>
          /\ subject' = ReplySubject(thread[1])
          /\ pc' = "prompt"
          /\ UNCHANGED <<thread, cur>>
  /\ UNCHANGED <<now, kv, calls, replyTarget, seen, author, events, history, ev, phase,
                 content, idx, human, pending, response, requests, trace,
                 likes, published>>

\* mutant: no catch around getActorHandle
PromptNoCatch ==
  /\ pc = "prompt"
  /\ \E resolved \in BOOLEAN :
       IF subject.prompt = NoActor \/ ~resolved
       THEN /\ pc' = "failed"
            /\ trace' = Append(trace, "prompt_failed")
            /\ UNCHANGED content
       ELSE /\ content' = << TextPart(
                  IF subject.tpl = "follow"
                  THEN getFollowPrompt(subject.prompt, TRUE)
                  ELSE getMentionPrompt(subject.prompt, TRUE)) >>
            /\ pc' = "icon"
            /\ UNCHANGED trace
  /\ UNCHANGED <<now, kv, calls, replyTarget, seen, author, events, history, ev, thread, cur,
                 subject, phase, messages, idx, human, pending, response,
                 requests, likes, published>>

\* getFollowPrompt / getMentionPrompt: getActorHandle resolves or throws
\* (caught); an undefined actor makes actor.summary throw
Prompt ==
  /\ pc = "prompt"
  /\ IF subject.prompt = NoActor
     THEN /\ pc' = "failed"
          /\ trace' = Append(trace, "prompt_failed")
          /\ UNCHANGED content
     ELSE /\ \E resolved \in BOOLEAN :
               content' = << TextPart(
                  IF subject.tpl = "follow"
                  THEN getFollowPrompt(subject.prompt, resolved)
                  ELSE getMentionPrompt(subject.prompt, resolved)) >>
          /\ pc' = "icon"
          /\ UNCHANGED trace
  /\ UNCHANGED <<now, kv, calls, replyTarget, seen, author, events, history, ev, thread, cur,
                 subject, phase, messages, idx, human, pending, response,
                 requests, likes, published>>

\* getIntroMessage: actor.getIcon / actor.getImage (null when it fails,
\* suppressError) and the call of toDataUrl
IntroUrl(which) ==
  IF which = "icon" THEN Profile[subject.intro].icon
  ELSE Profile[subject.intro].image

IntroFetch(which, next) ==
  /\ pc = which
  /\ ~Running("c1")
  /\ \E url \in {IntroUrl(which), NoUrl} :
       IF url = NoUrl
       THEN /\ pc' = next
            /\ UNCHANGED calls
       ELSE /\ TdStart("c1", url)
            /\ pc' = which \o "_wait"
  /\ UNCHANGED <<now, kv, replyTarget, seen, author, events, history, ev, thread, cur,
                 subject, phase, messages, content, idx, human, pending,
                 response, requests, trace, likes, published>>

\* toDataUrl returned: the image part is pushed; or it threw
IntroWait(which, next) ==
  /\ pc = which \o "_wait"
  /\ \/ /\ calls["c1"].pc = "done"
        /\ content' = Append(content, ImagePart(calls["c1"].result))
        /\ pc' = next
        /\ UNCHANGED trace
     \/ /\ calls["c1"].pc = "failed"
        /\ pc' = "failed"
        /\ trace' = Append(trace, "image_failed")
        /\ UNCHANGED content
  /\ calls' = [calls EXCEPT !["c1"] = FreeCall]
  /\ UNCHANGED <<now, kv, replyTarget, seen, author, events, history, ev, thread, cur,
                 subject, phase, messages, idx, human, pending, response,
                 requests, likes, published>>

\* getIntroMessage returns new HumanMessage({ content })
IntroReturn ==
  /\ pc = "intro_ret"
  /\ messages' = Append(messages, HumanMessage(content, NoMsg))
  /\ content' = <<>>
  /\ CASE ev.kind = "follow" ->
            /\ pending' = messages'
            /\ pc' = "respond"
            /\ UNCHANGED <<idx, human>>
       [] ev.kind = "mention" ->
            /\ human' = [msg |-> ev.msg, reaction |-> (phase = "reaction")]
            /\ pc' = "human"
            /\ UNCHANGED <<idx, pending>>
       [] OTHER ->
            /\ idx' = 1
            /\ pc' = "turns"
            /\ UNCHANGED <<human, pending>>
  /\ UNCHANGED <<now, kv, calls, replyTarget, seen, author, events, history, ev, thread, cur,
                 subject, phase, response, requests, trace, likes, published>>

getIntroMessage ==
  \/ IntroFetch("icon", "image")
  \/ IntroWait("icon", "image")
  \/ IntroFetch("image", "intro_ret")
  \/ IntroWait("image", "intro_ret")
  \/ IntroReturn

\* onReply: `for (const msg of thread)`: an AIMessage for the bot's own
\* message, else getHumanMessage(msg, false); after the loop
\* getHumanMessage(thread[thread.length - 1], true) for the reaction request
Turns ==
  /\ pc = "turns"
  /\ IF idx <= Len(thread)
     THEN IF IsOwn(thread[idx])
          THEN /\ messages' = Append(messages, AIMessage(thread[idx]))
               /\ idx' = idx + 1
               /\ UNCHANGED <<pc, human, phase>>
          ELSE /\ human' = [msg |-> thread[idx], reaction |-> FALSE]
               /\ pc' = "human"
               /\ UNCHANGED <<messages, idx, phase>>
     ELSE /\ human' = [msg |-> thread[Len(thread)], reaction |-> TRUE]
          /\ phase' = "reaction"
          /\ pc' = "human"
          /\ UNCHANGED <<messages, idx>>
  /\ UNCHANGED <<now, kv, calls, replyTarget, seen, author, events, history, ev, thread, cur,
                 subject, content, pending, response, requests, trace, likes,
                 published>>

\* getHumanMessage up to `await Promise.all(attachments)`: toDataUrl is
\* entered for every image attachment that has a URL
HumanStart ==
  /\ pc = "human"
  /\ \A c \in Slots : ~Running(c)
  /\ LET urls == ImageUrls(human.msg)
     IN calls' = [c \in Slots |->
          LET i == CHOOSE j \in 1..Len(SlotSeq) : SlotSeq[j] = c
          IN IF i <= Len(urls)
             THEN [FreeCall EXCEPT !.pc = "get", !.url = urls[i]]
             ELSE FreeCall]
  /\ pc' = "human_wait"
  /\ UNCHANGED <<now, kv, replyTarget, seen, author, events, history, ev, thread, cur,
                 subject, phase, messages, content, idx, human, pending,
                 response, requests, trace, likes, published>>

\* mutant: the image parts come last attachment first
HumanContentReversed(m, reaction, results) ==
  << TextPart(IF reaction THEN getReactionPrompt(m) ELSE PlainText(m)) >>
    \o [i \in 1..Len(results) |-> ImagePart(results[Len(results) + 1 - i])]

\* the content list of the HumanMessage getHumanMessage builds
HumanContent(m, reaction, results) ==
  << TextPart(IF reaction THEN getReactionPrompt(m) ELSE PlainText(m)) >>
    \o [i \in 1..Len(results) |-> ImagePart(results[i])]

\* mutant: the reaction turn is appended to all of messages
ReactionRequestAppended(msgs, turn) == Append(msgs, turn)

\* slice(0, messages.length - 1) and the reaction turn
ReactionRequest(msgs, turn) ==
  Append(SubSeq(msgs, 1, Len(msgs) - 1), turn)

\* Promise.all settles: one toDataUrl threw, or all returned and the
\* HumanMessage goes where its caller puts it
HumanWait ==
  /\ pc = "human_wait"
  /\ LET n == Len(ImageUrls(human.msg))
         started == {SlotSeq[i] : i \in 1..n}
     IN \/ /\ \E c \in started : calls[c].pc = "failed"
           /\ pc' = "failed"
           /\ trace' = Append(trace, "image_failed")
           /\ UNCHANGED <<calls, messages, idx, pending>>
        \/ /\ \A c \in started : calls[c].pc = "done"
           /\ calls' = [c \in Slots |-> FreeCall]
           /\ UNCHANGED trace
           /\ LET turn == HumanMessage(
                    HumanContent(human.msg, human.reaction,
                       [i \in 1..n |-> calls[SlotSeq[i]].result]),
                    human.msg)
              IN CASE ev.kind = "mention" /\ human.reaction ->
                        /\ pending' = Append(messages, turn)
                        /\ pc' = "react"
                        /\ UNCHANGED <<messages, idx>>
                   [] ev.kind = "mention" /\ ~human.reaction ->
                        /\ pending' = Append(messages, turn)
                        /\ pc' = "respond"
                        /\ UNCHANGED <<messages, idx>>
                   [] ev.kind = "reply" /\ human.reaction ->
                        /\ pending' = ReactionRequest(messages, turn)
                        /\ pc' = "react"
                        /\ UNCHANGED <<messages, idx>>
                   [] OTHER ->
                        /\ messages' = Append(messages, turn)
                        /\ idx' = idx + 1
                        /\ pc' = "turns"
                        /\ UNCHANGED pending
  /\ UNCHANGED <<now, kv, replyTarget, seen, author, events, history, ev, thread, cur,
                 subject, phase, content, human, response, requests, likes,
                 published>>

getHumanMessage == HumanStart \/ HumanWait

\* mutant: the reaction request is not awaited
ReactNotAwaited ==
  /\ pc = "react"
  /\ requests' = Append(requests, [kind |-> "reaction", turns |-> pending])
  /\ trace' = Append(trace, "reaction_issued")
  /\ pc' = "respond"
  /\ UNCHANGED <<now, kv, calls, replyTarget, seen, author, events, history, ev, thread, cur,
                 subject, phase, messages, content, idx, human, pending,
                 response, likes, published>>

\* llmWithStruct.invoke([...]) is issued
React ==
  /\ pc = "react"
  /\ requests' = Append(requests, [kind |-> "reaction", turns |-> pending])
  /\ trace' = Append(trace, "reaction_issued")
  /\ pc' = "react_wait"
  /\ UNCHANGED <<now, kv, calls, replyTarget, seen, author, events, history, ev, thread, cur,
                 subject, phase, messages, content, idx, human, pending,
                 response, likes, published>>

\* mutant: the message is liked whatever the answer
ReactWaitAlwaysLike ==
  /\ pc = "react_wait"
  /\ \/ /\ trace' = Append(trace, "reaction_failed")
        /\ pc' = "failed"
     \/ /\ trace' = Append(trace, "reaction_true")
        /\ pc' = "like"
     \/ /\ trace' = Append(trace, "reaction_false")
        /\ pc' = "like"
  /\ UNCHANGED <<now, kv, calls, replyTarget, seen, author, events, history, ev, thread, cur,
                 subject, phase, messages, content, idx, human, pending,
                 response, requests, likes, published>>

\* llmWithStruct.invoke returns { whetherToLike } or throws
ReactWait ==
  /\ pc = "react_wait"
  /\ \/ /\ trace' = Append(trace, "reaction_failed")
        /\ pc' = "failed"
        /\ UNCHANGED <<phase, messages, pending>>
     \/ /\ trace' = Append(trace, "reaction_true")
        /\ pc' = "like"
        /\ UNCHANGED <<phase, messages, pending>>
     \/ /\ trace' = Append(trace, "reaction_false")
        /\ phase' = "response"
        /\ IF ev.kind = "mention"
           THEN /\ messages' = <<getSystemMessage>>
                /\ pending' = <<>>
                /\ pc' = "prompt"
           ELSE /\ pending' = messages
                /\ pc' = "respond"
                /\ UNCHANGED messages
  /\ UNCHANGED <<now, kv, calls, replyTarget, seen, author, events, history, ev, thread, cur,
                 subject, content, idx, human, response, requests, likes,
                 published>>

\* await msg.like() returns or throws
Like ==
  /\ pc = "like"
  /\ \/ /\ likes' = Append(likes, ev.msg)
        /\ trace' = Append(trace, "liked")
        /\ phase' = "response"
        /\ IF ev.kind = "mention"
           THEN /\ messages' = <<getSystemMessage>>
                /\ pending' = <<>>
                /\ pc' = "prompt"
           ELSE /\ pending' = messages
                /\ pc' = "respond"
                /\ UNCHANGED messages
     \/ /\ trace' = Append(trace, "like_failed")
        /\ pc' = "failed"
        /\ UNCHANGED <<likes, phase, messages, pending>>
  /\ UNCHANGED <<now, kv, calls, replyTarget, seen, author, events, history, ev, thread, cur,
                 subject, content, idx, human, response, requests, published>>

\* llm.invoke(...) is issued
Respond ==
  /\ pc = "respond"
  /\ requests' = Append(requests, [kind |-> "response", turns |-> pending])
  /\ trace' = Append(trace, "response_issued")
  /\ pc' = "respond_wait"
  /\ UNCHANGED <<now, kv, calls, replyTarget, seen, author, events, history, ev, thread, cur,
                 subject, phase, messages, content, idx, human, pending,
                 response, likes, published>>

\* mutant: a failed response request is answered with an apology
RespondWaitSwallowed ==
  /\ pc = "respond_wait"
  /\ \/ /\ trace' = Append(trace, "response_failed")
        /\ response' = <<Tx("Sorry")>>
        /\ pc' = "publish"
     \/ /\ \E md \in Responses : response' = md
        /\ trace' = Append(trace, "response_answered")
        /\ pc' = "publish"
  /\ UNCHANGED <<now, kv, calls, replyTarget, seen, author, events, history, ev, thread, cur,
                 subject, phase, messages, content, idx, human, pending,
                 requests, likes, published>>

\* llm.invoke returns the response or throws
RespondWait ==
  /\ pc = "respond_wait"
  /\ \/ /\ trace' = Append(trace, "response_failed")
        /\ pc' = "failed"
        /\ UNCHANGED response
     \/ /\ \E md \in Responses : response' = md
        /\ trace' = Append(trace, "response_answered")
        /\ pc' = "publish"
  /\ UNCHANGED <<now, kv, calls, replyTarget, seen, author, events, history, ev, thread, cur,
                 subject, phase, messages, content, idx, human, pending,
                 requests, likes, published>>

\* the actor the answer is addressed to: actor in onFollow and onMention,
\* msg.actor in onReply
Target == ev.actor

\* mutant: onReply answers the root of the thread
PublishOnRoot ==
  /\ pc = "publish"
  /\ \/ /\ published' = Append(published,
              [via |-> IF ev.kind = "follow" THEN "publish" ELSE "reply",
               on |-> IF ev.kind = "reply" THEN thread[1] ELSE ev.msg,
               content |-> PublishedContent(response, Target)])
        /\ trace' = Append(trace, "published")
        /\ pc' = "done"
     \/ /\ trace' = Append(trace, "publish_failed")
        /\ pc' = "failed"
        /\ UNCHANGED published
  /\ UNCHANGED <<now, kv, calls, replyTarget, seen, author, events, history, ev, thread, cur,
                 subject, phase, messages, content, idx, human, pending,
                 response, requests, likes>>

\* session.publish(...) in onFollow, msg.reply(...) in onMention and
\* onReply, returning or throwing
Publish ==
  /\ pc = "publish"
  /\ \/ /\ published' = Append(published,
              [via |-> IF ev.kind = "follow" THEN "publish" ELSE "reply",
               on |-> ev.msg,
               content |-> PublishedContent(response, Target)])
        /\ trace' = Append(trace, "published")
        /\ pc' = "done"
     \/ /\ trace' = Append(trace, "publish_failed")
        /\ pc' = "failed"
        /\ UNCHANGED published
  /\ UNCHANGED <<now, kv, calls, replyTarget, seen, author, events, history, ev, thread, cur,
                 subject, phase, messages, content, idx, human, pending,
                 response, requests, likes>>

\* ------------------------------------------------------------------------
\* The specification
\* ------------------------------------------------------------------------
\* the state after construction, with n events to come
Begin(n) ==
  /\ now = 0
  /\ kv = [u \in Urls |-> NoEntry]
  /\ calls = [c \in Slots |-> FreeCall]
  /\ replyTarget = [m \in Msgs |-> NoMsg]
  /\ seen = {}
  /\ author \in AuthorChoices
  /\ events = n
  /\ history = <<>>
  /\ pc = "idle"
  /\ ev = NoEvent
  /\ thread = <<>>
  /\ cur = NoMsg
  /\ subject = NoSubject
  /\ phase = "none"
  /\ messages = <<>>
  /\ content = <<>>
  /\ idx = 0
  /\ human = NoHuman
  /\ pending = <<>>
  /\ response = NoResponse
  /\ requests = <<>>
  /\ trace = <<>>
  /\ likes = <<>>
  /\ published = <<>>

Init == Begin(MaxEvents)

\* a step of a toDataUrl call in flight
Resolve ==
  /\ \E c \in Slots : toDataUrl(c)
  /\ UNCHANGED <<replyTarget, seen, author, events, history, pc, ev, thread, cur, subject,
                 phase, messages, content, idx, human, pending, response,
                 requests, trace, likes, published>>

Clock ==
  /\ Tick
  /\ UNCHANGED <<replyTarget, seen, author, events, history, pc, ev, thread, cur, subject,
                 phase, messages, content, idx, human, pending, response,
                 requests, trace, likes, published>>

Next ==
  \/ \E a \in Humans : onFollow(a) /\ UNCHANGED history
  \/ \E m \in Msgs : onMention(m) /\ UNCHANGED history
  \/ \E m \in Msgs : onReply(m) /\ UNCHANGED history
  \/ Walk
  \/ Prompt
  \/ getIntroMessage
  \/ Turns
  \/ getHumanMessage
  \/ React
  \/ ReactWait
  \/ Like
  \/ Respond
  \/ RespondWait
  \/ Publish
  \/ Resolve

Spec == Init /\ [][Next]_vars

\* ------------------------------------------------------------------------
\* toDataUrl on its own, against the clock
\* ------------------------------------------------------------------------
\* the world of the cache specifications: no event is delivered
InitCache == Init /\ author = [m1 |-> Bot, m2 |-> "alice", m3 |-> "bob"]

\* toDataUrl(url) is called
Call(c, url) ==
  /\ ~Running(c)
  /\ TdStart(c, url)
  /\ UNCHANGED <<now, kv>>

\* toDataUrl(url) is called after the call before it has settled, which is
\* remembered
CallNext(c, url) ==
  /\ ~Running(c)
  /\ calls' = [calls EXCEPT ![c] =
       [FreeCall EXCEPT
          !.pc = "get", !.url = url,
          !.prev = IF calls[c].pc = "done"
                   THEN [url |-> calls[c].url, result |-> calls[c].result,
                         fetched |-> calls[c].fetched,
                         entryAt |-> calls[c].entryAt]
                   ELSE NoPrev]]
  /\ UNCHANGED <<now, kv>>

\* calls one after the other
NextSeq ==
  \/ /\ \/ \E url \in Urls : CallNext("c1", url)
        \/ toDataUrl("c1")
     /\ UNCHANGED <<replyTarget, seen, author, events, history, pc, ev, thread, cur,
                    subject, phase, messages, content, idx, human, pending,
                    response, requests, trace, likes, published>>
  \/ Clock

SpecSeq == InitCache /\ [][NextSeq]_vars

\* calls of different events side by side
NextCache ==
  \/ /\ \E c \in Slots : (\E url \in Urls : Call(c, url)) \/ toDataUrl(c)
     /\ UNCHANGED <<replyTarget, seen, author, events, history, pc, ev, thread, cur,
                    subject, phase, messages, content, idx, human, pending,
                    response, requests, trace, likes, published>>
  \/ Clock

SpecCache == InitCache /\ [][NextCache]_vars

\* ------------------------------------------------------------------------
\* The thread walk of onReply on its own: the loop is not kept from running
\* ------------------------------------------------------------------------
NextWalk ==
  \/ \E m \in Msgs : onReply(m) /\ UNCHANGED history
  \/ Walk

SpecWalk == Init /\ [][NextWalk]_vars /\ WF_vars(Walk)

\* ------------------------------------------------------------------------
\* One message delivered to both handlers: BotKit calls onMention for a
\* message that mentions the bot and onReply for a message that is a reply,
\* one after the other when a message is both
\* ------------------------------------------------------------------------
Kinds == {"mention", "reply"}

\* what is kept of the event handled last
Record ==
  [kind |-> ev.kind, msg |-> ev.msg, requests |-> Len(requests),
   likes |-> Len(likes), published |-> Len(published)]

\* message m has not been delivered as this kind of event, and no other
\* message has been delivered
Once(kind, m) ==
  /\ ev = NoEvent \/ (ev.msg = m /\ ev.kind # kind)
  /\ \A i \in 1..Len(history) : history[i].kind # kind
  /\ history' = IF ev = NoEvent THEN history ELSE Append(history, Record)

InitBoth ==
  /\ Begin(Cardinality(Kinds))
  /\ author = [m1 |-> "alice", m2 |-> Bot, m3 |-> "alice"]

NextBoth ==
  \/ \E m \in Msgs : Once("mention", m) /\ onMention(m)
  \/ \E m \in Msgs : Once("reply", m) /\ onReply(m)
  \/ Walk
  \/ Prompt
  \/ getIntroMessage
  \/ Turns
  \/ getHumanMessage
  \/ React
  \/ ReactWait
  \/ Like
  \/ Respond
  \/ RespondWait
  \/ Publish
  \/ Resolve

SpecBoth == InitBoth /\ [][NextBoth]_vars

\* ------------------------------------------------------------------------
\* Properties
\* ------------------------------------------------------------------------
Last(seq) == seq[Len(seq)]
Has(seq, x) == \E i \in 1..Len(seq) : seq[i] = x
Count(seq, x) == Cardinality({i \in 1..Len(seq) : seq[i] = x})

\* onReply has left the thread walk
ThreadBuilt == ev.kind = "reply" /\ pc # "walk"

\* C1: once onReply has walked the reply chain of the triggering message,
\* thread starts at the root (a message without reply target), ends with the
\* triggering message, every element but the first has the element before
\* it as its reply target, and the ancestors of the triggering message are
\* all there, each once.
C1_ThreadIsChain ==
  ThreadBuilt =>
    /\ Len(thread) >= 1
    /\ Last(thread) = ev.msg
    /\ replyTarget[thread[1]] = NoMsg
    /\ \A i \in 2..Len(thread) : replyTarget[thread[i]] = thread[i - 1]
    /\ \A i, j \in 1..Len(thread) : thread[i] = thread[j] => i = j
    /\ Range(thread) = Ancestors(replyTarget, ev.msg, Cardinality(Msgs))

\* a chain of three messages whose order is not that of their names
C1_Witness == ThreadBuilt /\ thread = <<"m3", "m1", "m2">>

\* the requests of a kind issued for the event
Requests(kind) == SelectSeq(requests, LAMBDA r : r.kind = kind)

IsIntro(turn) ==
  /\ turn.role = "human"
  /\ turn.src = NoMsg
  /\ turn.content[1].type = "text"
  /\ turn.content[1].text.tpl \in {"follow", "mention"}

\* C2: the response request of a reply event has a system turn, the
\* introduction turn, and then one turn for each message of the thread in
\* thread order, an assistant turn where the message's author is the bot
\* and a human turn where it is not: n + 2 turns for a thread of n.
C2_ReplyContext ==
  \A i \in 1..Len(requests) :
    (ev.kind = "reply" /\ requests[i].kind = "response") =>
      LET turns == requests[i].turns
      IN /\ Len(turns) = Len(thread) + 2
         /\ turns[1].role = "system"
         /\ IsIntro(turns[2])
         /\ \A k \in 1..Len(thread) :
              /\ turns[k + 2].src = thread[k]
              /\ turns[k + 2].role =
                   IF author[thread[k]] = Bot THEN "ai" ELSE "human"

\* the thread [root(bot), reply1(human), reply2(human, trigger)] and its
\* context system, introduction, assistant, human, human
C2_Witness ==
  /\ ev.kind = "reply"
  /\ Len(thread) = 3
  /\ author[thread[1]] = Bot
  /\ author[thread[2]] # Bot
  /\ Len(Requests("response")) = 1
  /\ [k \in 1..5 |-> Requests("response")[1].turns[k].role]
       = <<"system", "human", "ai", "human", "human">>

\* the call on slot c1 comes after a call for the same URL that fetched and
\* stored, and has read the cache less than three hours after that
SecondInWindow ==
  LET c == calls["c1"]
  IN /\ c.prev.url = c.url
     /\ c.prev.fetched
     /\ c.getAt >= 0
     /\ c.getAt < c.prev.entryAt + 3 * HourMs

\* C3: when toDataUrl is called for a URL after a call for the same URL has
\* fetched, stored and returned, and reads the cache within three hours of
\* that store, it hits the cache, calls fetch not at all (one fetch for the
\* two calls) and returns the data URL the first call returned.
C3_SecondCallHits ==
  SecondInWindow =>
    LET c == calls["c1"]
    IN /\ c.hit
       /\ ~c.fetched
       /\ c.pc = "done"
       /\ c.result = c.prev.result

\* the second call was made two hours after the first stored
C3_Witness ==
  /\ SecondInWindow
  /\ calls["c1"].pc = "done"
  /\ calls["c1"].getAt = calls["c1"].prev.entryAt + 2 * HourMs

C5_ImageFailureDropped ==
  ~(pc = "failed" /\ trace # <<>> /\ Last(trace) = "image_failed")

ReactionAnswers == {"reaction_true", "reaction_false"}
Steps ==
  {"reaction_issued", "liked", "response_issued", "response_answered",
   "published"} \cup ReactionAnswers

\* C6: in onMention and onReply every step of an event happens at most
\* once; the response request is issued only after the reaction request has
\* been issued and answered, and the reply is published only after the
\* response request has been issued and answered.
C6_Sequential ==
  ev.kind \in {"mention", "reply"} =>
    /\ \A x \in Steps : Count(trace, x) <= 1
    /\ ~(Has(trace, "reaction_true") /\ Has(trace, "reaction_false"))
    /\ \A i \in 1..Len(trace) :
         /\ trace[i] \in ReactionAnswers =>
              \E j \in 1..(i - 1) : trace[j] = "reaction_issued"
         /\ trace[i] = "response_issued" =>
              \E j \in 1..(i - 1) : trace[j] \in ReactionAnswers
         /\ trace[i] = "response_answered" =>
              \E j \in 1..(i - 1) : trace[j] = "response_issued"
         /\ trace[i] = "published" =>
              \E j \in 1..(i - 1) : trace[j] = "response_answered"
    /\ [i \in 1..Len(requests) |-> requests[i].kind]
         \in {<<>>, <<"reaction">>, <<"reaction", "response">>}

\* a reply event that went through all its steps
C6_Witness ==
  /\ ev.kind = "reply"
  /\ pc = "done"
  /\ trace = <<"reaction_issued", "reaction_true", "liked", "response_issued",
               "response_answered", "published">>

Failures == {"reaction_failed", "response_failed"}

\* C7: once a completion request of the event has failed the handler has
\* thrown, the failure is the last thing that happened, nothing is or was
\* published, and no request was issued a second time.
C7_FailureDropsEvent ==
  (\E x \in Failures : Has(trace, x)) =>
    /\ pc = "failed"
    /\ Last(trace) \in Failures
    /\ published = <<>>
    /\ ~Has(trace, "published")
    /\ Len(Requests("reaction")) <= 1
    /\ Len(Requests("response")) <= 1

\* the response request failed after the message had been liked
C7_Witness ==
  /\ pc = "failed"
  /\ trace = <<"reaction_issued", "reaction_true", "liked", "response_issued",
               "response_failed">>

\* the actor the answer of the event is for: the follower, or the author of
\* the triggering message
AnswerTarget == IF ev.kind = "follow" THEN ev.actor ELSE author[ev.msg]

MentionsOf(md, actor) ==
  Cardinality({i \in 1..Len(md) : md[i].mention = actor})

\* C8: what is published is the rendered response as it is when that
\* mentions the target actor, and else the response with one mention of the
\* target actor and a blank line in front; either way it mentions the
\* target actor.
C8_TargetMentioned ==
  \A i \in 1..Len(published) :
    LET c == published[i].content
        t == AnswerTarget
    IN /\ MentionsOf(response, t) > 0 => c = response
       /\ MentionsOf(response, t) = 0 =>
            /\ c = <<Mn(t), Tx("\n\n")>> \o response
            /\ MentionsOf(c, t) = 1
       /\ MentionsOf(c, t) >= 1

\* a reply whose response already mentions the author of the trigger
C8_Witness ==
  /\ ev.kind = "reply"
  /\ Len(published) = 1
  /\ MentionsOf(response, author[ev.msg]) = 1
  /\ published[1].content = response

\* the handle in a prompt text about an actor
HandleOk(text, actor) ==
  text.fediverseHandle \in {Profile[actor].handle, <<W("not available")>>}

\* C9: getFollowPrompt and getMentionPrompt throw for no actor: the
\* handler stops at the prompt only when there is no actor at all, and the
\* prompt rendered for an actor has as its handle the resolved handle or
\* "not available", also in every request that is sent.
C9_HandleNeverRaises ==
  /\ (trace # <<>> /\ Last(trace) = "prompt_failed") => subject.prompt = NoActor
  /\ pc \in {"icon", "icon_wait", "image", "image_wait", "intro_ret"} =>
       /\ subject.prompt \in Actors
       /\ content[1].text.tpl = subject.tpl
       /\ HandleOk(content[1].text, subject.prompt)
  /\ \A i \in 1..Len(requests) :
       HandleOk(requests[i].turns[2].content[1].text, subject.prompt)

\* the handle of alice could not be resolved and the prompt is there
C9_Witness ==
  /\ pc = "icon"
  /\ subject.prompt = "alice"
  /\ content[1].text.fediverseHandle = <<W("not available")>>
  /\ content[1].text.displayName = <<W("Alice")>>

BothRequests ==
  /\ ev.kind \in {"mention", "reply"}
  /\ Len(Requests("reaction")) = 1
  /\ Len(Requests("response")) = 1

\* C10 (as claimed): the reaction request is one turn longer than the
\* response request.
C10_OneTurnLonger ==
  BothRequests =>
    Len(Requests("reaction")[1].turns) = Len(Requests("response")[1].turns) + 1

\* C10 (amended): the reaction request has as many turns as the response
\* request: 3 for a mention, the length of the thread plus 2 for a reply.
\* Its turns but the last are those of the response request (turn by turn
\* the same role and message; in onReply the very same turns), its last
\* turn is a human turn made from the triggering message with the reaction
\* template, in the place of the response request's last turn, which is
\* the human turn of the triggering message's text. No turn of the
\* response request is made with the reaction template.
C10_LastTurnReplaced ==
  /\ \A i \in 1..Len(requests) :
       Len(requests[i].turns) =
         CASE ev.kind = "follow" -> 2
           [] ev.kind = "mention" -> 3
           [] OTHER -> Len(thread) + 2
  /\ BothRequests =>
       LET q == Requests("reaction")[1].turns
           r == Requests("response")[1].turns
           n == Len(r)
       IN /\ Len(q) = n
          /\ \A k \in 1..(n - 1) :
               q[k].role = r[k].role /\ q[k].src = r[k].src
          /\ ev.kind = "reply" => SubSeq(q, 1, n - 1) = SubSeq(r, 1, n - 1)
          /\ q[n].role = "human"
          /\ q[n].src = ev.msg
          /\ q[n].content[1].text.tpl = "reaction"
          /\ r[n].role = "human"
          /\ r[n].src = ev.msg
          /\ r[n].content[1].text.tpl = "plain"
          /\ \A k \in 1..n : \A j \in 1..Len(r[k].content) :
               r[k].content[j].text.tpl # "reaction"

\* both requests of a reply to a root message have been issued
C10_Witness ==
  /\ BothRequests
  /\ ev.kind = "reply"
  /\ Len(thread) = 2
  /\ Len(Requests("reaction")[1].turns) = 4
  /\ Len(Requests("response")[1].turns) = 4

\* the root of the thread of a reply event
Root == thread[1]

\* a prompt text is the given template rendered from the actor's display
\* name, handle (resolved or the fallback) and quoted biography
AboutActor(text, tpl, actor) ==
  /\ text.tpl = tpl
  /\ text.displayName = (IF Profile[actor].hasName THEN Profile[actor].name
                         ELSE <<W("not available")>>)
  /\ text.fediverseHandle \in {Profile[actor].handle, <<W("not available")>>}
  /\ text.body = quotedBio(actor)

\* C11 (as claimed): in a reply event the introduction turn is about the
\* author of the root message: building its prompt does not fail, its text
\* is the follow template (root written by the bot) or the mention template
\* (root written by someone else) rendered from the root author's name,
\* handle and biography, and the images resolved for it are the root
\* author's avatar and header.
C11_IntroAboutRootAuthor ==
  (ev.kind = "reply" /\ ThreadBuilt) =>
    LET a == author[Root]
        tpl == IF a = Bot THEN "follow" ELSE "mention"
    IN /\ ~(trace # <<>> /\ Last(trace) = "prompt_failed")
       /\ pc \in {"icon", "icon_wait", "image", "image_wait", "intro_ret"} =>
            AboutActor(content[1].text, tpl, a)
       /\ pc = "icon_wait" => calls["c1"].url = Profile[a].icon
       /\ pc = "image_wait" => calls["c1"].url = Profile[a].image
       /\ \A i \in 1..Len(requests) :
            AboutActor(requests[i].turns[2].content[1].text, tpl, a)

\* C12: the response request of a follow event is exactly the system turn
\* and the introduction turn, rendered with the follow template about the
\* follower; the response request of a mention event (the message has no
\* reply target) is exactly the system turn, the introduction turn rendered
\* with the mention template about the mentioning actor, and the human turn
\* of the triggering message with its text as it stands.
C12_FollowAndMentionContext ==
  \A i \in 1..Len(requests) :
    requests[i].kind = "response" =>
      LET turns == requests[i].turns
      IN /\ ev.kind = "follow" =>
              /\ Len(turns) = 2
              /\ turns[1] = SystemMessage(getSystemPrompt)
              /\ IsIntro(turns[2])
              /\ AboutActor(turns[2].content[1].text, "follow", ev.actor)
         /\ ev.kind = "mention" =>
              /\ replyTarget[ev.msg] = NoMsg
              /\ Len(turns) = 3
              /\ turns[1] = SystemMessage(getSystemPrompt)
              /\ IsIntro(turns[2])
              /\ AboutActor(turns[2].content[1].text, "mention", author[ev.msg])
              /\ turns[3].role = "human"
              /\ turns[3].src = ev.msg
              /\ turns[3].content[1] = TextPart(PlainText(ev.msg))

\* the response request of a mention without attachments: three turns, the
\* human turn with one text part
C12_Witness ==
  /\ ev.kind = "mention"
  /\ MsgAttachments[ev.msg] = <<>>
  /\ Len(Requests("response")) = 1
  /\ Len(Requests("response")[1].turns) = 3
  /\ Len(Requests("response")[1].turns[3].content) = 1

\* the positions of the attachments of m that are images with a URL
ImageDocs(m) ==
  {i \in 1..Len(MsgAttachments[m]) :
     /\ MsgAttachments[m][i].mediaType # <<>>
     /\ MsgAttachments[m][i].mediaType[1] = "image"
     /\ MsgAttachments[m][i].url # NoUrl}

\* the position of the k-th of them
NthImageDoc(m, k) ==
  CHOOSE i \in ImageDocs(m) : Cardinality({j \in ImageDocs(m) : j < i}) = k - 1

\* the human turn getHumanMessage has just returned
NewTurn == IF pc' = "turns" THEN Last(messages') ELSE Last(pending')

\* C13: when getHumanMessage returns, the content of its human turn is one
\* text part followed by one image part for each attachment that is an
\* image with a URL, in the order of the attachments, each holding the data
\* URL toDataUrl returned for that attachment's URL; the other attachments
\* add no part. getHumanMessage throws only when one of those toDataUrl
\* calls threw, never over an attachment that is no image or has no URL.
C13_HumanContent ==
  [][ (pc = "human_wait" /\ pc' # "human_wait") =>
        LET m == human.msg
            n == Cardinality(ImageDocs(m))
        IN /\ n <= Len(SlotSeq)
           /\ \A k \in 1..n :
                calls[SlotSeq[k]].url = MsgAttachments[m][NthImageDoc(m, k)].url
           /\ pc' = "failed" =>
                \E k \in 1..n : calls[SlotSeq[k]].pc = "failed"
           /\ pc' # "failed" =>
                /\ NewTurn.role = "human"
                /\ NewTurn.src = m
                /\ Len(NewTurn.content) = 1 + n
                /\ NewTurn.content[1].type = "text"
                /\ \A k \in 1..n :
                     /\ NewTurn.content[k + 1].type = "image_url"
                     /\ NewTurn.content[k + 1].url = calls[SlotSeq[k]].result
                     /\ calls[SlotSeq[k]].result # NoResult
                /\ n = 0 => NewTurn.content
                              = << TextPart(IF human.reaction
                                            THEN getReactionPrompt(m)
                                            ELSE PlainText(m)) >>
    ]_vars

\* a request holds the human turn of the message with five attachments: a
\* text part and the two images, which resolved to different data URLs
C13_Witness ==
  \E i \in 1..Len(requests) : \E k \in 1..Len(requests[i].turns) :
    LET turn == requests[i].turns[k]
    IN /\ turn.src = "m3"
       /\ turn.role = "human"
       /\ Len(MsgAttachments["m3"]) = 5
       /\ Len(turn.content) = 3
       /\ turn.content[2].url # turn.content[3].url

\* what a media server can have sent in full
Payloads == Bodies \cup {ErrorBody}

C15_StoreFailureSwallowed ==
  \A c \in Slots :
    (calls[c].fetched /\ calls[c].bytes # NoBytes) => calls[c].pc # "failed"

\* a text without markup, every line of it behind "> "
SanitizedAndQuoted(quoted, raw) ==
  /\ Len(quoted) = Len(raw)
  /\ \A i \in 1..Len(raw) :
       /\ quoted[i] = <<W("> ")>> \o textXssProcess(raw)[i]
       /\ \A j \in 1..Len(quoted[i]) : ~quoted[i][j].tag

\* C16 (as claimed): in every prompt that is sent, the biography quoted in
\* a follow or mention prompt and the message text quoted in a reaction
\* prompt are the sanitized text, every line prefixed by "> ".
C16_QuotedSanitized ==
  \A i \in 1..Len(requests) : \A k \in 1..Len(requests[i].turns) :
    LET turn == requests[i].turns[k]
        text == turn.content[1].text
    IN /\ (text.tpl \in {"follow", "mention"}
             /\ Profile[subject.prompt].hasSummary) =>
            SanitizedAndQuoted(text.body, Profile[subject.prompt].summary)
       /\ text.tpl = "reaction" =>
            SanitizedAndQuoted(text.body, MsgText[turn.src])

\* the reply chain of the triggering message as far as MaxWalk links reach
Chain == Ancestors(replyTarget, ev.msg, MaxWalk + 1)

\* following the reply targets from the triggering message comes to a
\* message without reply target
RECURSIVE ReachesRoot(_, _)
ReachesRoot(m, n) ==
  IF replyTarget[m] = NoMsg THEN TRUE
  ELSE IF n = 0 THEN FALSE
  ELSE ReachesRoot(replyTarget[m], n - 1)

Acyclic == ev.kind = "reply" /\ ReachesRoot(ev.msg, Cardinality(Msgs))
Cyclic == ev.kind = "reply" /\ ~ReachesRoot(ev.msg, Cardinality(Msgs))

\* C17: on an acyclic reply chain of n messages the thread walk ends, and
\* when it has ended it has taken exactly n - 1 steps (thread, which starts
\* with the triggering message and grows by one message a step, holds n
\* messages); on a chain whose reply targets form a cycle the walk never
\* ends: the loop is never left, whatever the length thread has grown to.
C17_WalkTerminates ==
  /\ [](ThreadBuilt => /\ Acyclic
                       /\ Len(thread) - 1 = Cardinality(Chain) - 1)
  /\ [](Cyclic => pc = "walk")
  /\ [][(Cyclic /\ Len(thread) < MaxWalk) => Len(thread') = Len(thread) + 1]_vars
  /\ (pc = "walk" /\ Acyclic) ~> (pc # "walk")

\* the walk over a chain of three messages has ended after two steps
C17_Witness ==
  /\ ThreadBuilt
  /\ Acyclic
  /\ Cardinality(Chain) = 3
  /\ Len(thread) = 3

\* C18 (as claimed): on a cache miss a GET that fails, by a network error
\* or by a response that is not 2xx, makes toDataUrl throw: the call
\* returns no data URL, and nothing is stored. (The body of a response that
\* is not 2xx is ErrorBody.)
C18_FailedGetFails ==
  /\ \A c \in Slots :
       (calls[c].fetched /\ calls[c].bytes \notin Bodies) =>
          /\ calls[c].pc = "failed"
          /\ calls[c].result = NoResult
  /\ \A u \in Urls : kv[u] = NoEntry \/ kv[u].bytes \in Bodies

\* the handler of the event has returned without throwing
Completed == pc = "done"

\* the one publication of a completed event: a top-level post for a
\* follow, a reply on the triggering message for a mention or a reply; it
\* mentions the follower, or the author of the triggering message
OnePublication ==
  /\ Len(published) = 1
  /\ Count(trace, "published") = 1
  /\ ev.kind = "follow" =>
       /\ published[1].via = "publish"
       /\ published[1].on = NoMsg
       /\ MentionsOf(published[1].content, ev.actor) >= 1
  /\ ev.kind \in {"mention", "reply"} =>
       /\ published[1].via = "reply"
       /\ published[1].on = ev.msg
       /\ MentionsOf(published[1].content, author[ev.msg]) >= 1

\* onMention was called for a message that has a reply target
SkippedMention == ev.kind = "mention" /\ replyTarget[ev.msg] # NoMsg

\* C19 (as claimed): every event whose handler completes has produced
\* exactly one publication.
C19_EveryEventPublishes == Completed => OnePublication

\* C19 (amended): every event whose handler completes has produced exactly
\* one publication (a top-level post via session.publish for a follow, a
\* reply on the triggering message addressed to its author for a mention
\* or a reply), except a mention event for a message that has a reply
\* target, whose handler completes without any publication; nothing is
\* published before the handler's last step, and never more than once.
C19_OnePublicationUnlessSkipped ==
  /\ Len(published) <= 1
  /\ published # <<>> => Completed
  /\ Completed =>
       IF SkippedMention THEN published = <<>> /\ requests = <<>>
       ELSE OnePublication

\* a reply event deep in a thread has completed: the one publication is a
\* reply on the triggering message, not on the root
C19_Witness ==
  /\ Completed
  /\ ev.kind = "reply"
  /\ Len(thread) = 3
  /\ Len(published) = 1
  /\ published[1].on = ev.msg
  /\ published[1].on # thread[1]
  /\ published[1].via = "reply"

\* the first position of x in seq, 0 when it is not there
First(seq, x) ==
  IF Has(seq, x) THEN CHOOSE i \in 1..Len(seq) :
                        seq[i] = x /\ \A j \in 1..(i - 1) : seq[j] # x
  ELSE 0

\* what the record of an event says about its like
LikeRecord ==
  /\ Len(likes) <= 1
  /\ Len(likes) = Count(trace, "liked")
  /\ \A i \in 1..Len(likes) : likes[i] = ev.msg /\ ev.msg # NoMsg
  /\ Count(trace, "reaction_issued") <= 1
  /\ Has(trace, "liked") =>
       /\ ev.kind \in {"mention", "reply"}
       /\ First(trace, "reaction_issued") < First(trace, "reaction_true")
       /\ First(trace, "reaction_true") < First(trace, "liked")
       /\ Has(trace, "response_issued") =>
            First(trace, "liked") < First(trace, "response_issued")
       /\ likes = <<ev.msg>>
  /\ (Has(trace, "reaction_false") \/ Has(trace, "reaction_failed")
        \/ Has(trace, "like_failed")) => likes = <<>>
  /\ ~Has(trace, "reaction_true") => likes = <<>>
  /\ ev.kind = "follow" =>
       /\ likes = <<>>
       /\ Requests("reaction") = <<>>
       /\ ~Has(trace, "reaction_issued")

\* C20: in a mention or reply event like() is called at most once, on the
\* triggering message, after the reaction request of the event was answered
\* true and before the response request is issued; it is not called when
\* the answer is false or the reaction request fails; a follow event issues
\* no reaction request and likes nothing; and a like that was registered
\* stays when the response request or the publication fails afterwards.
C20_LikeOnceAfterTrue ==
  /\ []LikeRecord
  /\ [][(likes # <<>> /\ events' = events) => likes' = likes]_vars

\* the message was liked and the publication failed afterwards: the like is
\* still there
C20_Witness ==
  /\ pc = "failed"
  /\ trace = <<"reaction_issued", "reaction_true", "liked", "response_issued",
               "response_answered", "publish_failed">>
  /\ likes = <<ev.msg>>

\* the records of all events of the run, the one being handled included
Records == IF ev = NoEvent THEN history ELSE Append(history, Record)

\* how often message m was liked, and how often answered, in the whole run
Sum(m, kinds, field) ==
  LET f[i \in 0..Len(Records)] ==
        IF i = 0 THEN 0
        ELSE f[i - 1] + (IF Records[i].msg = m /\ Records[i].kind \in kinds
                         THEN Records[i][field] ELSE 0)
  IN f[Len(Records)]

DeliveredAs(kind, m) ==
  \E i \in 1..Len(Records) : Records[i].kind = kind /\ Records[i].msg = m

\* C21: onMention does nothing for a message that has a reply target: it
\* returns in its first step without a request, a like or a publication.
\* So a message with a reply target that is delivered to onMention and to
\* onReply, in either order, is liked at most once and answered at most
\* once in all, by onReply alone; and as long as it has been delivered to
\* onMention only, it has no like and no answer.
C21_MentionSkipsReplies ==
  /\ SkippedMention =>
       /\ pc = "done"
       /\ requests = <<>>
       /\ trace = <<>>
       /\ likes = <<>>
       /\ published = <<>>
  /\ \A m \in Msgs :
       replyTarget[m] # NoMsg =>
         /\ Sum(m, {"mention"}, "requests") = 0
         /\ Sum(m, {"mention"}, "likes") = 0
         /\ Sum(m, {"mention"}, "published") = 0
         /\ Sum(m, Kinds, "likes") <= 1
         /\ Sum(m, Kinds, "published") <= 1
         /\ Sum(m, Kinds, "likes") = Sum(m, {"reply"}, "likes")
         /\ Sum(m, Kinds, "published") = Sum(m, {"reply"}, "published")
         /\ ~DeliveredAs("reply", m) =>
              Sum(m, Kinds, "likes") = 0 /\ Sum(m, Kinds, "published") = 0

\* a message was delivered to onMention, which did nothing, and then to
\* onReply, which liked and answered it: one like and one answer in all
C21_Witness ==
  /\ Len(history) = 1
  /\ history[1].kind = "mention"
  /\ history[1].msg = ev.msg
  /\ history[1].requests = 0
  /\ ev.kind = "reply"
  /\ pc = "done"
  /\ Sum(ev.msg, Kinds, "likes") = 1
  /\ Sum(ev.msg, Kinds, "published") = 1

====
